---- MODULE Spec2Model ----
(***************************************************************************)
(* A model of ldapcli (src/src/ldapcli/ldapcli.py): the profile store      *)
(* (LdapConfig), the name/DN normaliser, and the command handlers that     *)
(* talk to the directory through an ldap3 connection.                      *)
(*                                                                         *)
(* Python strings that the code takes apart (startswith, index, slices)    *)
(* are sequences of one-character strings; other strings are TLA+ strings. *)
(* Three specifications share the variables:                               *)
(*   SpecNames   the normaliser applied to bounded inputs                  *)
(*   SpecConfig  the profile store: load, update_profile, write, remove    *)
(*   Spec        command invocations against a directory                   *)
(***************************************************************************)
EXTENDS Integers, Sequences, FiniteSets, TLC

VARIABLES
    n_in,         \* SpecNames: the normaliser's arguments [nm, base, id_field]
    n_out,        \* SpecNames: results of the calls made so far (a sequence)
    conf,         \* SpecConfig: the in-memory LdapConfig
    file,         \* SpecConfig: the configuration file on disk, or NoFile
    conf_call,    \* SpecConfig: the last operation, its arguments and outcome
    dir,          \* Spec: the directory, a map from DN to entry
    pc,           \* Spec: where the current invocation stands
    cmd,          \* Spec: the command line of the current invocation
    ctx_connect,  \* Spec: TRUE when ctx.obj holds a bound connection
    unbinds,      \* Spec: the unbind() calls of the current invocation
    calls,        \* Spec: the directory calls of the current invocation, in order
    exc,          \* Spec: the exception the invocation raised, or "none"
    locals,       \* Spec: the handler's local variables when it ended
    before,       \* Spec: the directory when the handler started
    runs,         \* Spec: the number of invocations started
    prev          \* Spec: a summary of the previous invocation

names_vars == <<n_in, n_out>>
conf_vars == <<conf, file, conf_call>>
dir_vars == <<dir, pc, cmd, ctx_connect, unbinds, calls, exc, locals, before, runs, prev>>
vars == <<n_in, n_out, conf, file, conf_call,
          dir, pc, cmd, ctx_connect, unbinds, calls, exc, locals, before, runs, prev>>

None == "None"

\* the value of the variables a specification does not use
Unused == "unused"

DirUnused ==
    /\ dir = Unused /\ pc = Unused /\ cmd = Unused /\ ctx_connect = Unused
    /\ unbinds = Unused /\ calls = Unused /\ exc = Unused /\ locals = Unused
    /\ before = Unused /\ runs = Unused /\ prev = Unused

-----------------------------------------------------------------------------
(* Bounds *)

MaxNameLen == 4

\* invocations of the command line in one behaviour
MaxRuns == 2

\* directory calls of one invocation the server may refuse
MaxCalls == 4

-----------------------------------------------------------------------------
(* Python string primitives on sequences of characters *)

\* str.startswith(prefix)
StartsWith(s, prefix) ==
    /\ Len(prefix) <= Len(s)
    /\ SubSeq(s, 1, Len(prefix)) = prefix

\* ch in s
Contains(s, ch) == \E i \in 1..Len(s) : s[i] = ch

\* str.index(ch), as a 0-based position; only defined when ch is in s
\* (Python raises ValueError otherwise, which the callers model).
IndexOf(s, ch) == (CHOOSE i \in 1..Len(s) : s[i] = ch /\ \A j \in 1..(i-1) : s[j] # ch) - 1

\* s[lo:hi] with 0-based, end-exclusive positions
Slice(s, lo, hi) == SubSeq(s, lo + 1, hi)

USER_ID_FIELD == <<"u", "i", "d">>
GROUP_ID_FIELD == <<"c", "n">>

-----------------------------------------------------------------------------
(* The name/DN normaliser *)

\* A mutation of the slice bounds: the short name keeps the "=".
NormalizeNamesOffByOne(nm, base, id_field) ==
    IF StartsWith(nm, id_field \o <<"=">>)
    THEN IF ~Contains(nm, ",")
         THEN [raised |-> "ValueError", name |-> None, dn |-> nm]
         ELSE [raised |-> "none",
               name |-> Slice(nm, Len(id_field), IndexOf(nm, ",")),
               dn |-> nm]
    ELSE [raised |-> "none", name |-> nm,
          dn |-> id_field \o <<"=">> \o nm \o <<",">> \o base]

\* __normalize_names(nm, base, id_field): the (name, dn) pair, or the
\* ValueError of nm.index(',') on a DN-form input without a comma.
NormalizeNames(nm, base, id_field) ==
    IF StartsWith(nm, id_field \o <<"=">>)
    THEN IF ~Contains(nm, ",")
         THEN [raised |-> "ValueError", name |-> None, dn |-> nm]
         ELSE [raised |-> "none",
               name |-> Slice(nm, Len(id_field) + 1, IndexOf(nm, ",")),
               dn |-> nm]
    ELSE [raised |-> "none", name |-> nm,
          dn |-> id_field \o <<"=">> \o nm \o <<",">> \o base]

NormalizeUserNames(nm, base) == NormalizeNames(nm, base, USER_ID_FIELD)

NormalizeGroupNames(nm, base) == NormalizeNames(nm, base, GROUP_ID_FIELD)

-----------------------------------------------------------------------------
(* SpecNames: the normaliser on bounded inputs *)

Alphabet == {"a", "u", "i", "d", "c", "n", "=", ","}

StrsUpTo(k) == UNION {[1..m -> Alphabet] : m \in 0..k}

SearchBases == {<<"o", "=", "u">>, <<"o", "u", "=", "g", ",", "o", "=", "x">>}

IdFields == {USER_ID_FIELD, GROUP_ID_FIELD}

InitNames ==
    /\ n_in \in [nm : StrsUpTo(MaxNameLen), base : SearchBases, id_field : IdFields]
    /\ n_out = <<>>
    /\ conf = Unused
    /\ file = Unused
    /\ conf_call = Unused
    /\ DirUnused

\* normalize(nm, base, id_field)
NormalizeInput ==
    /\ n_out = <<>>
    /\ n_out' = <<NormalizeNames(n_in.nm, n_in.base, n_in.id_field)>>
    /\ UNCHANGED <<n_in, conf_vars, dir_vars>>

\* normalize(dn, base, id_field) for the dn the first call produced
NormalizeOutput ==
    /\ Len(n_out) = 1
    /\ n_out[1].raised = "none"
    /\ n_out' = Append(n_out, NormalizeNames(n_out[1].dn, n_in.base, n_in.id_field))
    /\ UNCHANGED <<n_in, conf_vars, dir_vars>>

NextNames == NormalizeInput \/ NormalizeOutput

SpecNames == InitNames /\ [][NextNames]_vars

\* The inputs C5 is about: no comma, and not already of the form "<attr>=..."
ShortName(nm, id_field) ==
    /\ ~Contains(nm, ",")
    /\ ~StartsWith(nm, id_field \o <<"=">>)

ExpectedPair == [raised |-> "none", name |-> n_in.nm,
                 dn |-> n_in.id_field \o <<"=">> \o n_in.nm \o <<",">> \o n_in.base]

\* C5: for a short name n (no comma, not beginning with "<attr>="), any base b
\* and attr in {uid, cn}, normalize(n, b, attr) is (n, "<attr>=<n>,<b>"), and
\* normalizing that DN again gives the same pair with the DN unchanged.
C5_NormalizeRoundTrip ==
    ShortName(n_in.nm, n_in.id_field) =>
        \A i \in 1..Len(n_out) : n_out[i] = ExpectedPair

\* C5's case: a non-empty short name has been normalised, and so has its DN.
C5_Witness ==
    /\ ShortName(n_in.nm, n_in.id_field)
    /\ Len(n_in.nm) >= 2
    /\ Contains(n_in.nm, "=")
    /\ Len(n_out) = 2
    /\ n_out[2].dn = n_out[1].dn

-----------------------------------------------------------------------------
(* The profile store: LdapConfig *)

PROF_HOST_URL == "host_url"
PROF_BIND_DN == "bind_dn"
PROF_BIND_PWD == "bind_pwd"
PROF_USER_SEARCH_DN == "user_search_dn"
PROF_USER_ADD_TEMPLATE == "user_add_template"
PROF_GROUP_SEARCH_DN == "group_search_dn"
PROF_GROUP_ADD_TEMPLATE == "group_add_template"

\* (field, required) in the order of the source
PROFILE_FIELDS == <<
    <<PROF_HOST_URL, TRUE>>,
    <<PROF_BIND_DN, TRUE>>,
    <<PROF_USER_SEARCH_DN, TRUE>>,
    <<PROF_USER_ADD_TEMPLATE, FALSE>>,
    <<PROF_GROUP_SEARCH_DN, TRUE>>,
    <<PROF_GROUP_ADD_TEMPLATE, FALSE>> >>

LATEST_CONFIG_VERSION == "1.0"

\* {} : the empty dict
EmptyMap == [k \in {} |-> None]

\* dict.get(k, d)
Get(m, k, d) == IF k \in DOMAIN m THEN m[k] ELSE d

\* a copy of dict m with m[k] = v
Put(m, k, v) == [x \in DOMAIN m \cup {k} |-> IF x = k THEN v ELSE m[x]]

\* a copy of dict m without key k
Pop(m, k) == [x \in DOMAIN m \ {k} |-> m[x]]

\* LdapConfig.__init__(d, c_profile)
LdapConfigInit(d, c_profile) ==
    IF DOMAIN d # {}
    THEN [version |-> Get(d, "version", None),
          defaults |-> Get(d, "defaults", EmptyMap),
          profiles |-> Get(d, "profiles", None),
          current_profile_name |-> c_profile]
    ELSE [version |-> LATEST_CONFIG_VERSION,
          defaults |-> EmptyMap,
          profiles |-> EmptyMap,
          current_profile_name |-> c_profile]

(* YAML, as far as this program uses it: mappings of strings to scalars or  *)
(* to mappings.  A dumped mapping is the sequence of its (key, node) pairs  *)
(* in sorted key order; a scalar node is tagged null or str.                *)

SortedKeys == <<PROF_BIND_DN, PROF_BIND_PWD, "default", "defaults",
                PROF_GROUP_ADD_TEMPLATE, PROF_GROUP_SEARCH_DN, PROF_HOST_URL,
                "profiles", PROF_USER_ADD_TEMPLATE, PROF_USER_SEARCH_DN,
                "version", "work">>

KeysOf(m) == SelectSeq(SortedKeys, LAMBDA k : k \in DOMAIN m)

YamlDumpScalar(v) == IF v = None THEN [tag |-> "null", text |-> ""]
                                 ELSE [tag |-> "str", text |-> v]

YamlLoadScalar(n) == IF n.tag = "null" THEN None ELSE n.text

YamlDumpSettings(m) ==
    [i \in 1..Len(KeysOf(m)) |-> <<KeysOf(m)[i], YamlDumpScalar(m[KeysOf(m)[i]])>>]

YamlNode(text, k) == text[CHOOSE i \in 1..Len(text) : text[i][1] = k][2]

YamlKeys(text) == {text[i][1] : i \in 1..Len(text)}

YamlLoadSettings(text) ==
    [k \in YamlKeys(text) |-> YamlLoadScalar(YamlNode(text, k))]

YamlDumpProfiles(m) ==
    [i \in 1..Len(KeysOf(m)) |-> <<KeysOf(m)[i], YamlDumpSettings(m[KeysOf(m)[i]])>>]

YamlLoadProfiles(text) ==
    [k \in YamlKeys(text) |-> YamlLoadSettings(YamlNode(text, k))]

\* yaml.dump of the dict to_dict() builds
YamlDump(d) == <<
    <<"defaults", YamlDumpSettings(d.defaults)>>,
    <<"profiles", YamlDumpProfiles(d.profiles)>>,
    <<"version", YamlDumpScalar(d.version)>> >>

\* yaml.load of a document this program wrote
YamlLoad(text) ==
    [k \in YamlKeys(text) |->
        CASE k = "defaults" -> YamlLoadSettings(YamlNode(text, k))
          [] k = "profiles" -> YamlLoadProfiles(YamlNode(text, k))
          [] OTHER -> YamlLoadScalar(YamlNode(text, k))]

NoFile == [exists |-> FALSE, text |-> <<>>]

\* LdapConfig.load(fn, c_profile): a missing file gives the empty document
Load(f, c_profile) ==
    LdapConfigInit(IF f.exists THEN YamlLoad(f.text) ELSE EmptyMap, c_profile)

\* LdapConfig.to_dict()
ToDict(cfg) == [version |-> ".1", defaults |-> cfg.defaults, profiles |-> cfg.profiles]

\* LdapConfig.to_yaml()
ToYaml(cfg) == YamlDump(ToDict(cfg))

\* LdapConfig.write(fn): the file is overwritten with the dumped document
WriteFile(cfg) == [exists |-> TRUE, text |-> ToYaml(cfg)]

\* LdapConfig.current_profile (a property: its value is the dict)
CurrentProfile(cfg) == Get(cfg.profiles, cfg.current_profile_name, EmptyMap)

\* LdapConfig.get(k)
ConfigGet(cfg, k) == Get(CurrentProfile(cfg), k, Get(cfg.defaults, k, None))

\* Python can call an object only if its type defines __call__; dict does not.
DictIsCallable == FALSE

\* update_profile, lines 122-124: the non-None new values override
MergeValues(current_values, new_values) ==
    [k \in DOMAIN current_values \cup {x \in DOMAIN new_values : new_values[x] # None} |->
        IF k \in DOMAIN new_values /\ new_values[k] # None
        THEN new_values[k] ELSE current_values[k]]

\* "not v" for the values a setting takes: None and the empty string are falsy
Falsy(v) == v = None \/ v = ""

\* update_profile, lines 126-129: the required fields missing or empty
MissingRequired(values) ==
    {PROFILE_FIELDS[i][1] : i \in
        {j \in 1..Len(PROFILE_FIELDS) :
            /\ PROFILE_FIELDS[j][2]
            /\ \/ PROFILE_FIELDS[j][1] \notin DOMAIN values
               \/ Falsy(values[PROFILE_FIELDS[j][1]])}}

\* LdapConfig.update_profile(new_values): the exception raised ("none" when it
\* returns) and the configuration afterwards.  Line 120 calls the value of
\* the current_profile property, a dict.
UpdateProfileResult(cfg, new_values) ==
    IF ~DictIsCallable
    THEN [raised |-> "TypeError", conf |-> cfg]
    ELSE LET current_values == MergeValues(CurrentProfile(cfg), new_values) IN
         IF MissingRequired(current_values) # {}
         THEN [raised |-> "InvalidEntry", conf |-> cfg]
         ELSE [raised |-> "none",
               conf |-> [cfg EXCEPT !.profiles =
                            Put(cfg.profiles, cfg.current_profile_name, current_values)]]

-----------------------------------------------------------------------------
(* SpecConfig: the profile store *)

ProfileNames == {"default", "work"}

SettingValues == {"x", "y"}

FullProfile(v) == [k \in {PROF_HOST_URL, PROF_BIND_DN, PROF_USER_SEARCH_DN,
                          PROF_GROUP_SEARCH_DN} |-> v]

InitProfileMaps == {
    EmptyMap,
    [k \in {"default"} |-> FullProfile("x")],
    [k \in {"default"} |-> Pop(FullProfile("x"), PROF_GROUP_SEARCH_DN)],
    [k \in {"default", "work"} |-> IF k = "default" THEN FullProfile("x")
                                                    ELSE Put(FullProfile("y"), PROF_BIND_PWD, "x")] }

InitDefaults == {EmptyMap, [k \in {PROF_BIND_PWD} |-> "y"]}

InitFiles == {NoFile} \cup
    {[exists |-> TRUE, text |-> YamlDump([version |-> v, defaults |-> d, profiles |-> p])] :
        v \in {LATEST_CONFIG_VERSION, ".1"}, d \in InitDefaults, p \in InitProfileMaps}

\* the values update_profile can be given: None for "not provided"
NewValues ==
    {[k \in DOMAIN req \cup DOMAIN opt |-> IF k \in DOMAIN req THEN req[k] ELSE opt[k]] :
        req \in [{PROF_HOST_URL, PROF_BIND_DN, PROF_USER_SEARCH_DN, PROF_GROUP_SEARCH_DN}
                    -> {None, "", "y"}],
        opt \in [{PROF_USER_ADD_TEMPLATE} -> {None, "t"}]}

\* cli(): the configuration is loaded when the process starts
InitConfig ==
    /\ file \in InitFiles
    /\ \E n \in ProfileNames : conf = Load(file, n)
    /\ conf_call = [op |-> "start"]
    /\ n_in = Unused
    /\ n_out = Unused
    /\ DirUnused

\* cli() of a later invocation: LdapConfig.load(config_file, profile_name)
CliLoad ==
    \E n \in ProfileNames :
        /\ conf' = Load(file, n)
        /\ conf_call' = [op |-> "load", after_write |-> conf_call.op = "write",
                         written |-> conf]
        /\ UNCHANGED <<file, names_vars, dir_vars>>

\* LdapConfig.update_profile(new_values)
UpdateProfile ==
    \E nv \in NewValues :
        /\ conf' = UpdateProfileResult(conf, nv).conf
        /\ conf_call' = [op |-> "update_profile", new_values |-> nv, before |-> conf,
                         file_before |-> file,
                         raised |-> UpdateProfileResult(conf, nv).raised]
        /\ UNCHANGED <<file, names_vars, dir_vars>>

\* LdapConfig.write(fn)
Write ==
    /\ file' = WriteFile(conf)
    /\ conf_call' = [op |-> "write"]
    /\ UNCHANGED <<conf, names_vars, dir_vars>>

\* profile remove: pop the current profile (KeyError when absent), then write
ProfileRemove ==
    /\ IF conf.current_profile_name \in DOMAIN conf.profiles
       THEN /\ conf' = [conf EXCEPT !.profiles = Pop(@, conf.current_profile_name)]
            /\ file' = WriteFile(conf')
            /\ conf_call' = [op |-> "write"]
       ELSE /\ conf_call' = [op |-> "profile_remove", raised |-> "KeyError"]
            /\ UNCHANGED <<conf, file>>
    /\ UNCHANGED <<names_vars, dir_vars>>

\* profile add: the prompts give every required field a non-empty value;
\* update_profile, then write unless it raised (only InvalidEntry is caught,
\* and turned into a ClickException)
ProfileAdd ==
    \E nv \in {v \in NewValues : MissingRequired(v) = {}} :
        LET r == UpdateProfileResult(conf, nv) IN
        /\ conf' = r.conf
        /\ file' = IF r.raised = "none" THEN WriteFile(r.conf) ELSE file
        /\ conf_call' = [op |-> "profile_add", new_values |-> nv, before |-> conf,
                         file_before |-> file, raised |-> r.raised]
        /\ UNCHANGED <<names_vars, dir_vars>>

NextConfig == CliLoad \/ UpdateProfile \/ Write \/ ProfileAdd \/ ProfileRemove

SpecConfig == InitConfig /\ [][NextConfig]_vars

\* the profile the merge of C2 and C3 results in
C_Merged == MergeValues(CurrentProfile(conf_call.before), conf_call.new_values)

\* C2: update_profile rejects a merge that leaves a required field missing or
\* empty with the invalid-profile error, and the in-memory document (the
\* current profile, the other profiles, the defaults) is then unchanged.
C2_RejectsInvalidMerge ==
    (conf_call.op = "update_profile" /\ MissingRequired(C_Merged) # {}) =>
        /\ conf_call.raised = "InvalidEntry"
        /\ conf = conf_call.before

\* C3: when the merged profile has its four required fields, update_profile
\* succeeds; the current profile then holds the new value for every key given
\* a non-None value and the old value otherwise, the other profiles and the
\* defaults are unchanged, and nothing is written to disk.
C3_MergesValidProfile ==
    (conf_call.op = "update_profile" /\ MissingRequired(C_Merged) = {}) =>
        /\ conf_call.raised = "none"
        /\ conf.current_profile_name \in DOMAIN conf.profiles
        /\ conf.profiles[conf.current_profile_name] = C_Merged
        /\ \A p \in DOMAIN conf_call.before.profiles \ {conf.current_profile_name} :
               /\ p \in DOMAIN conf.profiles
               /\ conf.profiles[p] = conf_call.before.profiles[p]
        /\ conf.defaults = conf_call.before.defaults
        /\ file = conf_call.file_before

\* C4: write(path) followed by load(path) gives a document with the version,
\* the defaults and the profiles of the document that was written.
C4_WriteLoadRoundTrip ==
    (conf_call.op = "load" /\ conf_call.after_write) =>
        /\ conf.version = conf_call.written.version
        /\ conf.defaults = conf_call.written.defaults
        /\ conf.profiles = conf_call.written.profiles

\* What does hold of write then load: the defaults and the profiles come back.
C4_DefaultsAndProfilesRoundTrip ==
    (conf_call.op = "load" /\ conf_call.after_write) =>
        /\ conf.defaults = conf_call.written.defaults
        /\ conf.profiles = conf_call.written.profiles
        /\ conf.version = ".1"

-----------------------------------------------------------------------------
(* The directory and the ldap3 connection *)

\* the profile the directory commands run under
UserBase == <<"o", "=", "u">>
GroupBase == <<"o", "=", "g">>

DirProfile == [host_url |-> "ldap://h", bind_dn |-> "cn=Directory Manager",
               user_search_dn |-> UserBase, group_search_dn |-> GroupBase]

DirConfig == LdapConfigInit([version |-> ".1", defaults |-> EmptyMap,
                             profiles |-> [default |-> DirProfile]], "default")

\* LdapConfig.user_search_base and group_search_base
UserSearchBase(cfg) == ConfigGet(cfg, PROF_USER_SEARCH_DN)
GroupSearchBase(cfg) == ConfigGet(cfg, PROF_GROUP_SEARCH_DN)

\* 'cn=Directory Manager', the member fix_groups skips
DirectoryManager == <<"c", "n", "=", "D", "i", "r", "e", "c", "t", "o", "r", "y", " ",
                      "M", "a", "n", "a", "g", "e", "r">>

\* The attributes the commands read or write.  Every attribute is a set of
\* values; the empty set is an absent attribute.  The attributes user create
\* copies from its options (sn, mail, cn, homeDirectory, sshPublicKey) are
\* left out: no command reads them back.
AttrNames == {"objectClass", "cn", "uid", "uidNumber", "gidNumber",
              "uniqueMember", "memberUid"}

Entry(cls, attrs) == [a \in AttrNames |-> IF a = "objectClass" THEN cls ELSE Get(attrs, a, {})]

GroupClasses == {"top", "groupOfUniqueNames", "posixGroup"}

UserClasses == {"top", "account", "posixaccount", "inetOrgPerson", "person", "inetUser",
                "organizationalPerson", "ldapPublicKey"}

Max(S) == CHOOSE x \in S : \A y \in S : y <= x

\* list[0] of a single-valued attribute
First(S) == CHOOSE x \in S : TRUE

\* the entries of a search, in some order (a list built from a set)
RECURSIVE SetToSeq(_)
SetToSeq(S) == IF S = {} THEN <<>>
               ELSE LET x == CHOOSE y \in S : TRUE IN <<x>> \o SetToSeq(S \ {x})

\* The state a handler threads through its directory calls: the directory,
\* the calls made, the server's answers to come, the exception raised, and
\* the connection's result fields (ok is the call's return value).  A logged
\* call is [op, dn, ok, failed]: failed says the directory refused it (a
\* search that finds nothing returns False without having failed).
NewExec(d, ans) == [dir |-> d, calls |-> <<>>, ans |-> ans, exc |-> "none",
                    ok |-> TRUE, entries |-> {}, last_error |-> FALSE,
                    locals |-> EmptyMap]

\* raise click.ClickException(msg) or another exception
Raise(st, e) == [st EXCEPT !.exc = e]

SetLocal(st, k, v) == [st EXCEPT !.locals = Put(@, k, v)]

\* Whether the server is willing to perform the next call: it may refuse any
\* call (access, schema, availability); calls past the answers given succeed.
ServerAnswer(st) ==
    IF Len(st.calls) < Len(st.ans) THEN st.ans[Len(st.calls) + 1] ELSE TRUE

\* dn lies under base
Under(dn, base) ==
    /\ Len(dn) > Len(base)
    /\ SubSeq(dn, Len(dn) - Len(base), Len(dn)) = <<",">> \o base

\* the filters the commands build: (objectclass=v) and (attr=v)
Matches(e, f) ==
    IF f.kind = "objectclass" THEN f.value \in e.objectClass
                              ELSE f.value \in e[f.attr]

\* entry_attributes_as_dict of an entry read with the given attribute list
AttributesAsDict(e, attributes) == [a \in attributes |-> e[a]]

\* connect.search(base, filter, attributes=...): True when at least one entry
\* came back; connect.entries holds them; last_error is set when the server
\* failed the search.
ConnSearch(st, base, filter, attributes) ==
    LET found == IF ServerAnswer(st)
                 THEN {dn \in DOMAIN st.dir : Under(dn, base) /\ Matches(st.dir[dn], filter)}
                 ELSE {}
    IN [st EXCEPT
           !.calls = Append(@, [op |-> "search", dn |-> base, ok |-> found # {},
                                failed |-> ~ServerAnswer(st)]),
           !.ok = found # {},
           !.entries = {[entry_dn |-> dn, attrs |-> AttributesAsDict(st.dir[dn], attributes)] :
                           dn \in found},
           !.last_error = ~ServerAnswer(st)]

\* connect.add(dn, cls, attrs): refused when the entry exists or a value does
\* not fit its attribute's syntax (syntax_ok), or when the server says so.
ConnAdd(st, dn, cls, attrs, syntax_ok) ==
    LET ok == ServerAnswer(st) /\ dn \notin DOMAIN st.dir /\ syntax_ok
    IN [st EXCEPT
           !.calls = Append(@, [op |-> "add", dn |-> dn, ok |-> ok, failed |-> ~ok]),
           !.ok = ok,
           !.last_error = ~ok,
           !.dir = IF ok THEN Put(@, dn, Entry(cls, attrs)) ELSE @]

\* One modify request is a sequence of changes [attr, op, vals], applied in
\* order and all or nothing: adding a value the attribute holds, or deleting
\* one it does not hold, fails the request.
RECURSIVE ApplyMods(_, _)
ApplyMods(r, mods) ==
    IF mods = <<>> \/ ~r.ok THEN r
    ELSE LET m == Head(mods)
             cur == r.entry[m.attr]
         IN ApplyMods(
                CASE m.op = "add" ->
                        IF m.vals \cap cur # {} THEN [ok |-> FALSE, entry |-> r.entry]
                        ELSE [ok |-> TRUE, entry |-> [r.entry EXCEPT ![m.attr] = cur \cup m.vals]]
                  [] m.op = "delete" ->
                        IF ~(m.vals \subseteq cur) THEN [ok |-> FALSE, entry |-> r.entry]
                        ELSE [ok |-> TRUE, entry |-> [r.entry EXCEPT ![m.attr] = cur \ m.vals]]
                  [] OTHER ->
                        [ok |-> TRUE, entry |-> [r.entry EXCEPT ![m.attr] = m.vals]],
                Tail(mods))

\* connect.modify(dn, mods)
ConnModify(st, dn, mods) ==
    LET applied == IF dn \in DOMAIN st.dir
                   THEN ApplyMods([ok |-> TRUE, entry |-> st.dir[dn]], mods)
                   ELSE [ok |-> FALSE]
        ok == ServerAnswer(st) /\ applied.ok
    IN [st EXCEPT
           !.calls = Append(@, [op |-> "modify", dn |-> dn, ok |-> ok, failed |-> ~ok]),
           !.ok = ok,
           !.last_error = ~ok,
           !.dir = IF ok THEN Put(@, dn, applied.entry) ELSE @]

\* connect.delete(dn)
ConnDelete(st, dn) ==
    LET ok == ServerAnswer(st) /\ dn \in DOMAIN st.dir
    IN [st EXCEPT
           !.calls = Append(@, [op |-> "delete", dn |-> dn, ok |-> ok, failed |-> ~ok]),
           !.ok = ok,
           !.last_error = ~ok,
           !.dir = IF ok THEN Pop(@, dn) ELSE @]

-----------------------------------------------------------------------------
(* The command handlers *)

\* max_uid = 100, max_gid = 100
FloorId == 100

\* next_gid = 20000
FirstFixGid == 20000

\* _add_user_to_groups(config, connect, user_dn, user_id, groups)
RECURSIVE AddUserToGroups(_, _, _, _, _)
AddUserToGroups(st, cfg, user_dn, user_id, groups) ==
    IF st.exc # "none" \/ groups = <<>> THEN st
    ELSE LET g == NormalizeGroupNames(Head(groups), GroupSearchBase(cfg)) IN
         IF g.raised # "none" THEN Raise(st, g.raised)
         ELSE LET m == ConnModify(st, g.dn,
                          << [attr |-> "uniqueMember", op |-> "add", vals |-> {user_dn}],
                             [attr |-> "memberUid", op |-> "add", vals |-> {user_id}] >>)
              IN IF ~m.ok THEN Raise(m, "Failed to add user to group")
                 ELSE AddUserToGroups(m, cfg, user_dn, user_id, Tail(groups))

\* _create_group(ctx, group_name, group_id): the result of connect.add is
\* not looked at.  group_id is [numeric, v]: gidNumber takes integers only.
CreateGroup(st, cfg, group_name, group_id) ==
    LET g == NormalizeGroupNames(group_name, GroupSearchBase(cfg)) IN
    IF g.raised # "none" THEN Raise(st, g.raised)
    ELSE ConnAdd(st, g.dn, GroupClasses,
                 [cn |-> {g.name},
                  gidNumber |-> IF group_id.numeric THEN {group_id.v} ELSE {}],
                 group_id.numeric)

\* user_create, lines 326-348: next_id
UserCreateNextId(st, cfg, a) ==
    IF a.uid.kind # "none" THEN SetLocal(st, "next_id", 1)
    ELSE LET s == ConnSearch(st, UserSearchBase(cfg),
                             [kind |-> "objectclass", value |-> "person"],
                             {"uid", "gidNumber"})
             tgid(r) == IF Get(r.attrs, "gidNumber", {0}) = {} THEN 0
                        ELSE First(Get(r.attrs, "gidNumber", {0}))
             max_uid == Max({FloorId} \cup
                            {First(Get(r.attrs, "uidNumber", {0})) : r \in s.entries})
             max_gid == Max({FloorId} \cup {tgid(r) : r \in s.entries})
         IN IF ~s.ok /\ s.last_error
            THEN Raise(SetLocal(s, "next_id", 1), "Failed to query for uid")
            ELSE SetLocal(s, "next_id", Max({max_uid, max_gid}) + 1)

\* user_create, lines 350-357: the check of an explicit uid
UserCreateCheckUid(st, cfg, a) ==
    IF st.exc # "none" THEN st
    ELSE IF a.uid.kind = "text"
    THEN LET s == ConnSearch(st, UserSearchBase(cfg),
                             [kind |-> "eq", attr |-> "uid", value |-> a.uid.text], {})
         IN IF ~s.ok THEN Raise(s, "Failed to query for uid")
            ELSE IF s.entries # {} THEN Raise(s, "Entry with uid already exists")
            ELSE SetLocal(s, "uid", a.uid.text)
    ELSE SetLocal(st, "uid", st.locals.next_id)

\* user_create, lines 359-366: the check of an explicit gid
UserCreateCheckGid(st, cfg, a) ==
    IF st.exc # "none" THEN st
    ELSE IF a.gid.kind = "num"
    THEN LET s == ConnSearch(st, UserSearchBase(cfg),
                             [kind |-> "eq", attr |-> "gidNumber", value |-> a.gid.num], {})
         IN IF ~s.ok THEN Raise(s, "Failed to query for gid")
            ELSE IF s.entries # {} THEN Raise(s, "Entry with gid already exists")
            ELSE SetLocal(s, "gid", a.gid.num)
    ELSE SetLocal(st, "gid", st.locals.next_id)

\* user_create with a compensating action it does not have: the private
\* group is deleted again when the add of the user entry is refused
UserCreateEntriesRollback(st, cfg, a) ==
    IF st.exc # "none" THEN st
    ELSE LET u == NormalizeUserNames(a.username, UserSearchBase(cfg)) IN
         IF u.raised # "none" THEN Raise(st, u.raised)
         ELSE LET s1 == CreateGroup(st, cfg, u.name, [numeric |-> TRUE, v |-> st.locals.gid])
                  g == NormalizeGroupNames(u.name, GroupSearchBase(cfg))
                  s2 == AddUserToGroups(s1, cfg, u.dn, u.name, <<g.name>>)
                  s3 == IF s2.exc # "none" THEN s2
                        ELSE ConnAdd(s2, u.dn, UserClasses,
                                     [uid |-> {u.name},
                                      uidNumber |-> {st.locals.next_id},
                                      gidNumber |-> {st.locals.next_id}], TRUE)
              IN IF s3.exc # "none" THEN s3
                 ELSE IF ~s3.ok THEN Raise(ConnDelete(s3, g.dn), "Failed to create user")
                 ELSE AddUserToGroups(s3, cfg, u.dn, u.name, a.groups)

\* user_create, lines 368-398: the private group, its membership, the user
\* entry, the additional groups
UserCreateEntries(st, cfg, a) ==
    IF st.exc # "none" THEN st
    ELSE LET u == NormalizeUserNames(a.username, UserSearchBase(cfg)) IN
         IF u.raised # "none" THEN Raise(st, u.raised)
         ELSE LET s1 == CreateGroup(st, cfg, u.name, [numeric |-> TRUE, v |-> st.locals.gid])
                  group_name == NormalizeGroupNames(u.name, GroupSearchBase(cfg)).name
                  s2 == AddUserToGroups(s1, cfg, u.dn, u.name, <<group_name>>)
                  s3 == IF s2.exc # "none" THEN s2
                        ELSE ConnAdd(s2, u.dn, UserClasses,
                                     [uid |-> {u.name},
                                      uidNumber |-> {st.locals.next_id},
                                      gidNumber |-> {st.locals.next_id}], TRUE)
              IN IF s3.exc # "none" THEN s3
                 ELSE IF ~s3.ok THEN Raise(s3, "Failed to create user")
                 ELSE AddUserToGroups(s3, cfg, u.dn, u.name, a.groups)

\* user create
UserCreateBody(st, cfg, a) ==
    UserCreateEntries(
        UserCreateCheckGid(
            UserCreateCheckUid(
                UserCreateNextId(st, cfg, a), cfg, a), cfg, a), cfg, a)

\* group create: the description is passed where _create_group takes group_id
GroupCreateBody(st, cfg, a) == CreateGroup(st, cfg, a.group_name, a.description)

\* group remove: the result of connect.delete is not looked at
GroupRemoveBody(st, cfg, a) ==
    LET g == NormalizeGroupNames(a.group_name, GroupSearchBase(cfg)) IN
    IF g.raised # "none" THEN Raise(st, g.raised) ELSE ConnDelete(st, g.dn)

\* the attribute a filter f"({id_field}=...)" names
FilterAttr(id_field) == IF id_field = USER_ID_FIELD THEN "uid" ELSE "cn"

\* _verify_entity_exists(ctx, entity, base, id_field): the search; an entity
\* that is not found is an error only when the search itself failed.  The
\* result is the state with the locals name and dn of the pair it returns.
VerifyEntityExists(st, entity, base, id_field) ==
    LET n == NormalizeNames(entity, base, id_field) IN
    IF n.raised # "none" THEN Raise(st, n.raised)
    ELSE LET s == ConnSearch(st, base, [kind |-> "eq", attr |-> FilterAttr(id_field), value |-> n.name], {})
         IN IF ~s.ok /\ s.last_error THEN Raise(s, "Failed to find entity")
            ELSE SetLocal(SetLocal(s, "name", n.name), "dn", n.dn)

\* _verify_user_exists(ctx, user_dn)
VerifyUserExists(st, cfg, user_dn) ==
    VerifyEntityExists(st, user_dn, UserSearchBase(cfg), USER_ID_FIELD)

\* _verify_group_exists(ctx, grp)
VerifyGroupExists(st, cfg, grp) ==
    VerifyEntityExists(st, grp, GroupSearchBase(cfg), GROUP_ID_FIELD)

\* _remove_user_from_groups(config, connect, user_dn, groups)
RECURSIVE RemoveUserFromGroups(_, _, _, _)
RemoveUserFromGroups(st, cfg, user_dn, groups) ==
    IF st.exc # "none" \/ groups = <<>> THEN st
    ELSE LET g == NormalizeGroupNames(Head(groups), GroupSearchBase(cfg)) IN
         IF g.raised # "none" THEN Raise(st, g.raised)
         ELSE LET m == ConnModify(st, g.dn,
                          << [attr |-> "uniqueMember", op |-> "delete", vals |-> {user_dn}] >>)
              IN IF ~m.ok THEN Raise(m, "Failed to remove user to group")
                 ELSE RemoveUserFromGroups(m, cfg, user_dn, Tail(groups))

\* user group add: _add_user_to_groups is called with four arguments where
\* it takes five
UserGroupAddBody(st, cfg, a) ==
    LET v == VerifyUserExists(st, cfg, a.username) IN
    IF v.exc # "none" THEN v ELSE Raise(v, "TypeError")

\* user group remove
UserGroupRemoveBody(st, cfg, a) ==
    LET v == VerifyUserExists(st, cfg, a.username) IN
    IF v.exc # "none" THEN v
    ELSE RemoveUserFromGroups(v, cfg, v.locals.dn, a.groups)

\* group user remove, lines 698-701: one MODIFY_DELETE per --user
RECURSIVE GroupUserRemoveArgs(_, _)
GroupUserRemoveArgs(users, cfg) ==
    IF users = <<>> THEN [raised |-> "none", args |-> <<>>]
    ELSE LET u == NormalizeUserNames(Head(users), UserSearchBase(cfg))
             rest == GroupUserRemoveArgs(Tail(users), cfg)
         IN IF u.raised # "none" THEN [raised |-> u.raised, args |-> <<>>]
            ELSE [rest EXCEPT !.args =
                     <<[attr |-> "uniqueMember", op |-> "delete", vals |-> {u.dn}]>> \o @]

\* group user remove
GroupUserRemoveBody(st, cfg, a) ==
    LET v == VerifyGroupExists(st, cfg, a.group_name) IN
    IF v.exc # "none" THEN v
    ELSE LET r == GroupUserRemoveArgs(a.users, cfg) IN
         IF r.raised # "none" THEN Raise(v, r.raised)
         ELSE LET m == ConnModify(v, v.locals.dn, r.args)
              IN IF ~m.ok THEN Raise(m, "Failed to remove users from group") ELSE m

\* fix_groups, lines 543-556: the modifications of one entry.  next_gid is
\* the counter after the entry; raised is the ValueError of a member DN
\* "uid=..." without a comma.
RECURSIVE MemberUidMods(_, _, _)
MemberUidMods(members, e, cfg) ==
    IF members = <<>> THEN [raised |-> "none", mods |-> <<>>]
    ELSE LET n == NormalizeUserNames(Head(members), UserSearchBase(cfg))
             rest == MemberUidMods(Tail(members), e, cfg)
         IN IF Head(members) = DirectoryManager THEN rest
            ELSE IF n.raised # "none" THEN [raised |-> n.raised, mods |-> <<>>]
            ELSE IF n.name \notin e.attrs.memberUid
            THEN [rest EXCEPT !.mods =
                     <<[attr |-> "memberUid", op |-> "add", vals |-> {n.name}]>> \o @]
            ELSE rest

FixGroupMods(e, cfg, next_gid) ==
    LET lacks_class == "posixGroup" \notin e.attrs.objectClass
        lacks_gid == lacks_class /\ e.attrs.gidNumber = {}
        member_mods == MemberUidMods(SetToSeq(e.attrs.uniqueMember), e, cfg)
    IN [raised |-> member_mods.raised,
        next_gid |-> IF lacks_gid THEN next_gid + 1 ELSE next_gid,
        mods |-> (IF lacks_class
                  THEN <<[attr |-> "objectClass", op |-> "add", vals |-> {"posixGroup"}]>>
                  ELSE <<>>)
                 \o (IF lacks_gid
                     THEN <<[attr |-> "gidNumber", op |-> "add", vals |-> {next_gid}]>>
                     ELSE <<>>)
                 \o member_mods.mods]

\* fix_groups, lines 542-560: the loop over connect.entries.  g_bound says
\* whether the inner loop has bound g, which the error message reads.
RECURSIVE FixGroupsLoop(_, _, _, _, _)
FixGroupsLoop(st, cfg, entries, next_gid, g_bound) ==
    IF st.exc # "none" \/ entries = <<>> THEN st
    ELSE LET e == Head(entries)
             fm == FixGroupMods(e, cfg, next_gid)
             bound == g_bound \/ e.attrs.uniqueMember # {}
         IN IF fm.raised # "none" THEN Raise(st, fm.raised)
            ELSE IF fm.mods = <<>>
            THEN FixGroupsLoop(st, cfg, Tail(entries), fm.next_gid, bound)
            ELSE LET m == ConnModify(SetLocal(st, "mod_sets", st.locals.mod_sets \cup {e.entry_dn}),
                                     e.entry_dn, fm.mods)
                 IN IF ~m.ok
                    THEN Raise(m, IF bound THEN "Failed up update group" ELSE "NameError")
                    ELSE FixGroupsLoop(m, cfg, Tail(entries), fm.next_gid, bound)

\* fix_groups, lines 536-537: the search, whose result is not looked at
FixGroupsSearch(st, cfg) ==
    ConnSearch(SetLocal(st, "mod_sets", {}), GroupSearchBase(cfg),
               [kind |-> "objectclass", value |-> "groupOfUniqueNames"],
               {"uniqueMember", "memberUid", "objectClass", "gidNumber"})

\* fix-groups, with connect.entries in the order the server returned them
FixGroupsBody(st, cfg, entries) == FixGroupsLoop(st, cfg, entries, FirstFixGid, FALSE)

\* profile display: without --all it calls conf.current_profile()
ProfileDisplayBody(st, cfg, a) ==
    IF ~a.all /\ ~DictIsCallable THEN Raise(st, "TypeError") ELSE st

-----------------------------------------------------------------------------
(* Spec: command invocations against a directory *)

UserDN(n) == USER_ID_FIELD \o <<"=">> \o n \o <<",">> \o UserBase

GroupDN(n) == GROUP_ID_FIELD \o <<"=">> \o n \o <<",">> \o GroupBase

Person(n, uid_number, gid_numbers) ==
    Entry(UserClasses, [uid |-> {n}, uidNumber |-> {uid_number}, gidNumber |-> gid_numbers])

\* the map holding the (dn, entry) pairs of S
MapOf(S) == [dn \in {p[1] : p \in S} |-> (CHOOSE p \in S : p[1] = dn)[2]]

\* the people the directory starts with
InitUsers == {
    {},
    {<<UserDN(<<"x">>), Person(<<"x">>, 100, {100})>>,
     <<UserDN(<<"y">>), Person(<<"y">>, 105, {100})>>,
     <<UserDN(<<"z">>), Person(<<"z">>, 110, {100})>>},
    {<<UserDN(<<"a">>), Person(<<"a">>, 105, {120})>>},
    {<<UserDN(<<"a">>), Person(<<"a">>, 130, {})>>} }

GroupEntry(n, cls, gid, members, member_uids) ==
    <<GroupDN(n), Entry(cls, [cn |-> {n}, gidNumber |-> gid, uniqueMember |-> members,
                              memberUid |-> member_uids])>>

Unfixed == {"top", "groupOfUniqueNames"}

\* the groups the directory starts with: g absent, repaired, or in a state
\* that needs repair; h absent or in need of repair
InitGroupG == {
    {},
    {GroupEntry(<<"g">>, GroupClasses, {FirstFixGid}, {UserDN(<<"a">>)}, {<<"a">>})},
    {GroupEntry(<<"g">>, GroupClasses, {FirstFixGid}, {UserDN(<<"a">>), DirectoryManager}, {})},
    {GroupEntry(<<"g">>, Unfixed, {}, {}, {})},
    {GroupEntry(<<"g">>, Unfixed, {}, {UserDN(<<"a">>), UserDN(<<"b">>)}, {<<"a">>})},
    {GroupEntry(<<"g">>, Unfixed, {FirstFixGid}, {GroupDN(<<"q">>), DirectoryManager}, {})},
    {GroupEntry(<<"g">>, Unfixed, {}, {UserDN(<<"a">>), <<"u", "i", "d", "=", "a", ",", "o", "=", "x">>}, {})} }

InitGroupH == {
    {},
    {GroupEntry(<<"h">>, Unfixed, {}, {UserDN(<<"b">>)}, {})} }

InitDirs == {MapOf(u \cup g \cup h) : u \in InitUsers, g \in InitGroupG, h \in InitGroupH}

Answers == [1..MaxCalls -> BOOLEAN]

Orderings(S) == {p \in [1..Cardinality(S) -> S] : \A i, j \in 1..Cardinality(S) : p[i] = p[j] => i = j}

\* An option value is [kind, text, num]: kind "none" for an option not given
\* (None), "empty" for the empty string, "text" or "num" for a value, with
\* its characters in text and, when they are digits, its number in num.
NotGiven == [kind |-> "none", text |-> <<>>, num |-> 0]

UidArgs == {NotGiven,
            [kind |-> "empty", text |-> <<>>, num |-> 0],
            [kind |-> "text", text |-> <<"a">>, num |-> 0],
            [kind |-> "text", text |-> <<"7">>, num |-> 7]}

GidArgs == {NotGiven,
            [kind |-> "num", text |-> <<>>, num |-> 100],
            [kind |-> "num", text |-> <<>>, num |-> 500]}

UserCreateCmd(n, u, g, gs) ==
    [group |-> "user", name |-> "user_create", username |-> n, uid |-> u, gid |-> g,
     groups |-> gs]

UserCreateCmds ==
    {UserCreateCmd(<<"a">>, u, NotGiven, <<>>) : u \in UidArgs}
    \cup {UserCreateCmd(<<"a">>, NotGiven, g, <<>>) : g \in GidArgs}
    \cup {UserCreateCmd(<<"a">>, NotGiven, NotGiven, << <<"g">> >>),
          UserCreateCmd(<<"a">>, NotGiven, NotGiven, << <<"g">>, <<"h">> >>),
          UserCreateCmd(<<"b">>, NotGiven, NotGiven, <<>>)}

GroupCreateCmds ==
    {[group |-> "group", name |-> "group_create", group_name |-> n, description |-> d] :
        n \in {<<"g">>, <<"h">>},
        d \in {[numeric |-> FALSE, v |-> 0], [numeric |-> TRUE, v |-> 500]}}

GroupRemoveCmds ==
    {[group |-> "group", name |-> "group_remove", group_name |-> n] :
        n \in {<<"g">>, GroupDN(<<"h">>)}}

FixGroupsCmds == {[group |-> "group", name |-> "fix_groups"]}

UserGroupAddCmds ==
    {[group |-> "user", name |-> "user_group_add", username |-> <<"a">>,
      groups |-> << <<"g">> >>]}

UserGroupRemoveCmds ==
    {[group |-> "user", name |-> "user_group_remove", username |-> <<"a">>, groups |-> gs] :
        gs \in {<< <<"g">> >>, << <<"g">>, <<"a">> >>}}

\* group user remove with at least one --user
GroupUserRemoveCmds ==
    {[group |-> "group", name |-> "group_user_remove", group_name |-> <<"g">>, users |-> us] :
        us \in {<< <<"a">> >>, << UserDN(<<"a">>), <<"b">> >>}}

ProfileDisplayCmds == {[group |-> "profile", name |-> "profile_display", all |-> b] : b \in BOOLEAN}

Cmds == UserCreateCmds \cup GroupCreateCmds \cup GroupRemoveCmds \cup FixGroupsCmds
        \cup ProfileDisplayCmds \cup UserGroupAddCmds \cup UserGroupRemoveCmds
        \cup GroupUserRemoveCmds

NoCmd == [group |-> "none", name |-> "none"]

Init ==
    /\ dir \in InitDirs
    /\ pc = "exit0"
    /\ cmd = NoCmd
    /\ ctx_connect = FALSE
    /\ unbinds = 0
    /\ calls = <<>>
    /\ exc = "none"
    /\ locals = EmptyMap
    /\ before = dir
    /\ runs = 0
    /\ prev = [name |-> "none", returned |-> TRUE, searches_ok |-> TRUE, modifies_ok |-> TRUE,
               cmd |-> NoCmd, before |-> dir]
    /\ conf = DirConfig
    /\ file = Unused
    /\ conf_call = Unused
    /\ n_in = Unused
    /\ n_out = Unused

\* the directory refused no call of the given kind in the log
AllAccepted(log, op) == \A i \in 1..Len(log) : log[i].op = op => ~log[i].failed

\* cli(): a new process starts, with a fresh context holding the configuration
Cli ==
    /\ pc \in {"exit0", "exit1"}
    /\ runs < MaxRuns
    /\ \E c \in Cmds : cmd' = c
    /\ pc' = "cli"
    /\ prev' = [name |-> cmd.name, returned |-> pc = "exit0",
                searches_ok |-> AllAccepted(calls, "search"),
                modifies_ok |-> AllAccepted(calls, "modify"),
                cmd |-> cmd, before |-> before]
    /\ ctx_connect' = FALSE
    /\ unbinds' = 0
    /\ calls' = <<>>
    /\ exc' = "none"
    /\ locals' = EmptyMap
    /\ before' = dir
    /\ runs' = runs + 1
    /\ UNCHANGED <<dir, names_vars, conf_vars>>

\* user() and group(): _connect_ldap binds, stores the connection in the
\* context, or raises when the bind fails
ConnectLdap ==
    /\ pc = "cli"
    /\ cmd.group \in {"user", "group"}
    /\ \E bound \in BOOLEAN :
        IF bound
        THEN /\ ctx_connect' = TRUE
             /\ pc' = "body"
             /\ exc' = exc
        ELSE /\ ctx_connect' = ctx_connect
             /\ pc' = "raised"
             /\ exc' = "Failed to bind to LDAP server"
    /\ UNCHANGED <<dir, cmd, unbinds, calls, locals, before, runs, prev, names_vars, conf_vars>>

\* profile(): no connection is made
ProfileGroup ==
    /\ pc = "cli"
    /\ cmd.group = "profile"
    /\ pc' = "body"
    /\ UNCHANGED <<dir, cmd, ctx_connect, unbinds, calls, exc, locals, before, runs, prev,
                   names_vars, conf_vars>>

\* the handler has ended in the execution state st
Ended(st) ==
    /\ dir' = st.dir
    /\ calls' = st.calls
    /\ exc' = st.exc
    /\ locals' = st.locals
    /\ pc' = IF st.exc = "none" THEN "returned" ELSE "raised"
    /\ UNCHANGED <<cmd, ctx_connect, unbinds, before, runs, prev, names_vars, conf_vars>>

UserCreate ==
    /\ pc = "body"
    /\ cmd.name = "user_create"
    /\ \E ans \in Answers : Ended(UserCreateBody(NewExec(dir, ans), conf, cmd))

GroupCreate ==
    /\ pc = "body"
    /\ cmd.name = "group_create"
    /\ \E ans \in Answers : Ended(GroupCreateBody(NewExec(dir, ans), conf, cmd))

GroupRemove ==
    /\ pc = "body"
    /\ cmd.name = "group_remove"
    /\ \E ans \in Answers : Ended(GroupRemoveBody(NewExec(dir, ans), conf, cmd))

FixGroups ==
    /\ pc = "body"
    /\ cmd.name = "fix_groups"
    /\ \E ans \in Answers :
        LET s == FixGroupsSearch(NewExec(dir, ans), conf) IN
        \E entries \in Orderings(s.entries) : Ended(FixGroupsBody(s, conf, entries))

UserGroupAdd ==
    /\ pc = "body"
    /\ cmd.name = "user_group_add"
    /\ \E ans \in Answers : Ended(UserGroupAddBody(NewExec(dir, ans), conf, cmd))

UserGroupRemove ==
    /\ pc = "body"
    /\ cmd.name = "user_group_remove"
    /\ \E ans \in Answers : Ended(UserGroupRemoveBody(NewExec(dir, ans), conf, cmd))

GroupUserRemove ==
    /\ pc = "body"
    /\ cmd.name = "group_user_remove"
    /\ \E ans \in Answers : Ended(GroupUserRemoveBody(NewExec(dir, ans), conf, cmd))

ProfileDisplay ==
    /\ pc = "body"
    /\ cmd.name = "profile_display"
    /\ Ended(ProfileDisplayBody(NewExec(dir, <<>>), conf, cmd))

\* user_cleanup, the result callback: it runs when the command returned
UserCleanup ==
    /\ pc = "returned"
    /\ unbinds' = IF ctx_connect THEN unbinds + 1 ELSE unbinds
    /\ pc' = "exit0"
    /\ UNCHANGED <<dir, cmd, ctx_connect, calls, exc, locals, before, runs, prev,
                   names_vars, conf_vars>>

\* cli() ends with the exception of a callback or a handler: click reports
\* it and exits non-zero; the result callback is not called
ExitError ==
    /\ pc = "raised"
    /\ pc' = "exit1"
    /\ UNCHANGED <<dir, cmd, ctx_connect, unbinds, calls, exc, locals, before, runs, prev,
                   names_vars, conf_vars>>

Next ==
    \/ Cli
    \/ ConnectLdap
    \/ ProfileGroup
    \/ UserCreate
    \/ GroupCreate
    \/ GroupRemove
    \/ FixGroups
    \/ UserGroupAdd
    \/ UserGroupRemove
    \/ GroupUserRemove
    \/ ProfileDisplay
    \/ UserCleanup
    \/ ExitError

Spec == Init /\ [][Next]_vars

-----------------------------------------------------------------------------
(* Properties of Spec *)

\* the invocation has ended (the process has exited)
Exited == pc \in {"exit0", "exit1"} /\ cmd.name # "none"

\* the handler of the current invocation has run and ended
HandlerEnded == pc \in {"returned", "raised", "exit0", "exit1"} /\ (ctx_connect \/ cmd.group = "profile")

Mutations == {"add", "modify", "delete"}

\* the directory refused none of the calls of the current invocation
NoCallFailed == \A i \in 1..Len(calls) : ~calls[i].failed

\* C1: an invocation whose bind succeeded has unbound the session exactly
\* once when it ends, whether the command returned or raised; an invocation
\* without a session has issued no unbind.
C1_UnbindExactlyOnce ==
    Exited => unbinds = (IF ctx_connect THEN 1 ELSE 0)

\* What does hold: the session is unbound once when the command returns.
C1_UnbindOnReturn ==
    (Exited /\ pc = "exit0") => unbinds = (IF ctx_connect THEN 1 ELSE 0)

\* the person entries under the user search base when the handler started
PersonsBefore ==
    {dn \in DOMAIN before : Under(dn, UserBase) /\ "person" \in before[dn].objectClass}

\* C6: user create without an explicit uid computes next_id as
\* max(100, every uidNumber and gidNumber of the person entries) + 1.
C6_NextId ==
    (HandlerEnded /\ cmd.name = "user_create" /\ cmd.uid.kind = "none" /\ ~calls[1].failed) =>
        locals.next_id =
            Max({100} \cup UNION {before[dn].uidNumber \cup before[dn].gidNumber :
                                    dn \in PersonsBefore}) + 1

\* What the code computes: the uidNumber values are not read.
C6_NextIdFromGidNumbers ==
    (HandlerEnded /\ cmd.name = "user_create" /\ cmd.uid.kind = "none" /\ ~calls[1].failed) =>
        locals.next_id =
            Max({100} \cup UNION {before[dn].gidNumber : dn \in PersonsBefore}) + 1

C_ChosenUid == IF cmd.uid.kind = "text" THEN cmd.uid.num ELSE locals.next_id

C_ChosenGid == IF cmd.gid.kind = "num" THEN cmd.gid.num ELSE locals.next_id

\* C7: user create for n, when the directory refuses none of its calls,
\* creates the group cn=n with the chosen gid and the user uid=n with the chosen
\* uid and gid (the explicit value when given, next_id otherwise), and n is a
\* member of the group; with an empty directory and no explicit ids the three
\* numbers are 101.
C7_UserCreateEntries ==
    (/\ HandlerEnded /\ cmd.name = "user_create" /\ NoCallFailed
     /\ cmd.uid.kind = "text" => cmd.uid.num > 0) =>
        /\ exc = "none"
        /\ GroupDN(cmd.username) \in DOMAIN dir
        /\ UserDN(cmd.username) \in DOMAIN dir
        /\ dir[GroupDN(cmd.username)].gidNumber = {C_ChosenGid}
        /\ dir[UserDN(cmd.username)].uidNumber = {C_ChosenUid}
        /\ dir[UserDN(cmd.username)].gidNumber = {C_ChosenGid}
        /\ UserDN(cmd.username) \in dir[GroupDN(cmd.username)].uniqueMember
        /\ cmd.username \in dir[GroupDN(cmd.username)].memberUid
        /\ (DOMAIN before = {} /\ cmd.uid.kind = "none" /\ cmd.gid.kind = "none") =>
               C_ChosenUid = 101 /\ C_ChosenGid = 101

\* What does hold: the same without explicit ids.
C7_UserCreateDefaultIds ==
    (/\ HandlerEnded /\ cmd.name = "user_create" /\ NoCallFailed
     /\ cmd.uid.kind = "none" /\ cmd.gid.kind = "none") =>
        /\ exc = "none"
        /\ GroupDN(cmd.username) \in DOMAIN dir
        /\ UserDN(cmd.username) \in DOMAIN dir
        /\ dir[GroupDN(cmd.username)].gidNumber = {locals.next_id}
        /\ dir[UserDN(cmd.username)].uidNumber = {locals.next_id}
        /\ dir[UserDN(cmd.username)].gidNumber = {locals.next_id}
        /\ UserDN(cmd.username) \in dir[GroupDN(cmd.username)].uniqueMember
        /\ cmd.username \in dir[GroupDN(cmd.username)].memberUid
        /\ DOMAIN before = {} => locals.next_id = 101

\* an entry under the user search base holds the explicit uid
UidExistsBefore ==
    \E dn \in DOMAIN before : Under(dn, UserBase) /\ cmd.uid.text \in before[dn].uid

\* C8, first half: an explicit uid that an entry holds makes user create fail
\* with the duplicate-entry error without any add or modify call.
C8_DuplicateUidRejected ==
    (/\ HandlerEnded /\ cmd.name = "user_create" /\ cmd.uid.kind = "text"
     /\ NoCallFailed /\ UidExistsBefore) =>
        /\ exc = "Entry with uid already exists"
        /\ \A i \in 1..Len(calls) : calls[i].op \notin Mutations
        /\ dir = before

\* C8: an explicit uid that an entry holds is rejected as a duplicate with no
\* directory mutation, and an explicit uid that no entry holds is not
\* reported as an error by the duplicate check.
C8_ExplicitUidCheck ==
    /\ C8_DuplicateUidRejected
    /\ (/\ HandlerEnded /\ cmd.name = "user_create" /\ cmd.uid.kind = "text"
        /\ NoCallFailed /\ ~UidExistsBefore) =>
           exc \notin {"Failed to query for uid", "Entry with uid already exists"}

\* C9: fix-groups run right after a fix-groups run that returned with every
\* modify accepted computes no modification and issues no modify call.
C9_FixGroupsIdempotent ==
    (/\ HandlerEnded /\ cmd.name = "fix_groups"
     /\ prev.name = "fix_groups" /\ prev.returned /\ prev.modifies_ok) =>
        /\ locals.mod_sets = {}
        /\ \A i \in 1..Len(calls) : calls[i].op # "modify"

\* What does hold: the same when the search of the first run did not fail.
C9_FixGroupsIdempotentAfterSearch ==
    (/\ HandlerEnded /\ cmd.name = "fix_groups"
     /\ prev.name = "fix_groups" /\ prev.returned /\ prev.modifies_ok
     /\ prev.searches_ok) =>
        /\ locals.mod_sets = {}
        /\ \A i \in 1..Len(calls) : calls[i].op # "modify"

\* C10: when the directory refuses an add, modify or delete call, the command
\* ends with an error and issues no further add, modify or delete call.
C10_RefusedMutationIsTerminal ==
    HandlerEnded =>
        \A i \in 1..Len(calls) :
            (calls[i].op \in Mutations /\ calls[i].failed) =>
                /\ exc # "none"
                /\ pc \in {"raised", "exit1"}
                /\ \A j \in (i + 1)..Len(calls) : calls[j].op \notin Mutations

\* What does hold: a refused modify ends the command with an error.
C10_RefusedModifyIsTerminal ==
    HandlerEnded =>
        \A i \in 1..Len(calls) :
            (calls[i].op = "modify" /\ calls[i].failed) =>
                /\ exc # "none"
                /\ pc \in {"raised", "exit1"}
                /\ i = Len(calls)

\* the add, modify and delete calls of the current invocation, in order
C_MutationCalls == SelectSeq(calls, LAMBDA c : c.op \in Mutations)

\* the mutations of user create for cmd.username, in the order of the source
C_UserCreatePlan ==
    << [op |-> "add", dn |-> GroupDN(cmd.username)],
       [op |-> "modify", dn |-> GroupDN(cmd.username)],
       [op |-> "add", dn |-> UserDN(cmd.username)] >>
    \o [i \in 1..Len(cmd.groups) |->
           [op |-> "modify",
            dn |-> NormalizeGroupNames(cmd.groups[i], GroupBase).dn]]

\* the user of the command is listed as a member of the group entry e
C_ListsUser(e) ==
    /\ UserDN(cmd.username) \in e.uniqueMember
    /\ cmd.username \in e.memberUid

\* C11: the add, modify and delete calls of user create are, in order, a
\* prefix of: add of the private group, modify adding the user to it, add of
\* the user entry, one modify per additional group.  Nothing is undone: every
\* accepted mutation is still in the directory when the command ends, no
\* entry is removed, and the entries the command did not touch are as they
\* were.  When the user add is refused after the two group calls were
\* accepted, the command fails and the private group lists the user.
C11_UserCreateOrderNoRollback ==
    (HandlerEnded /\ cmd.name = "user_create") =>
        LET muts == C_MutationCalls
            plan == C_UserCreatePlan
        IN /\ Len(muts) <= Len(plan)
           /\ \A i \in 1..Len(muts) :
                 /\ muts[i].op = plan[i].op
                 /\ muts[i].dn = plan[i].dn
                 /\ muts[i].ok =>
                       /\ muts[i].dn \in DOMAIN dir
                       /\ muts[i].op = "modify" => C_ListsUser(dir[muts[i].dn])
                 /\ (i < Len(muts) /\ plan[i].op = "modify") => muts[i].ok
           /\ DOMAIN before \subseteq DOMAIN dir
           /\ \A dn \in DOMAIN before :
                 (\A i \in 1..Len(muts) : muts[i].dn = dn => ~muts[i].ok) =>
                     dir[dn] = before[dn]
           /\ (Len(muts) >= 3 /\ muts[1].ok /\ muts[2].ok /\ ~muts[3].ok) =>
                 /\ Len(muts) = 3
                 /\ exc = "Failed to create user"
                 /\ dir[GroupDN(cmd.username)].uniqueMember = {UserDN(cmd.username)}
                 /\ dir[GroupDN(cmd.username)].memberUid = {cmd.username}

\* user create whose user add was refused after the private group was
\* created and the user made its member
C11_Witness ==
    /\ HandlerEnded /\ cmd.name = "user_create"
    /\ Len(C_MutationCalls) = 3
    /\ C_MutationCalls[1].ok /\ C_MutationCalls[2].ok /\ ~C_MutationCalls[3].ok
    /\ GroupDN(cmd.username) \notin DOMAIN before
    /\ C_ListsUser(dir[GroupDN(cmd.username)])

\* C12: every delete call of group remove is preceded, in the same
\* invocation, by a search under the group search base that looks the group
\* up, and no delete is issued for a group the directory does not hold.
C12_GroupRemoveVerifiesExistence ==
    (HandlerEnded /\ cmd.name = "group_remove") =>
        \A i \in 1..Len(calls) :
            calls[i].op = "delete" =>
                /\ \E j \in 1..(i - 1) :
                      calls[j].op = "search" /\ calls[j].dn = GroupBase
                /\ calls[i].dn \in DOMAIN before

\* What does hold: group remove issues one call, the delete of the group's DN.
C12_GroupRemoveDeletesByDN ==
    (HandlerEnded /\ cmd.name = "group_remove") =>
        /\ Len(calls) = 1
        /\ calls[1].op = "delete"
        /\ calls[1].dn = NormalizeGroupNames(cmd.group_name, GroupBase).dn


\* m is the DN of a user: uid=<name>,<rest>
C_IsUserDN(m) == StartsWith(m, USER_ID_FIELD \o <<"=">>) /\ Contains(m, ",")

\* the memberUid values of the group entry e are exactly the short names of
\* its uniqueMember DNs
C_Corresponds(e) ==
    /\ \A m \in e.uniqueMember : C_IsUserDN(m)
    /\ e.memberUid = {NormalizeUserNames(m, UserBase).name : m \in e.uniqueMember}

\* the current invocation is a membership addition or removal, has ended
\* without an error, and the directory accepted its add and modify calls
C_MembershipDone(names) ==
    /\ HandlerEnded /\ cmd.name \in names /\ exc = "none"
    /\ \A i \in 1..Len(calls) : calls[i].op \in Mutations => calls[i].ok

C_Additions == {"user_create"}

C_Removals == {"user_group_remove", "group_user_remove"}

C_GroupDNs(gs) == {NormalizeGroupNames(gs[i], GroupBase).dn : i \in 1..Len(gs)}

\* the current invocation removes the user n, and nobody else, from the group g
C_RemovesOnly(n, g) ==
    \/ /\ cmd.name = "user_group_remove"
       /\ cmd.username = n
       /\ g \in C_GroupDNs(cmd.groups)
    \/ /\ cmd.name = "group_user_remove"
       /\ NormalizeGroupNames(cmd.group_name, GroupBase).dn = g
       /\ cmd.users = <<n>>

\* the groups of the directory d
C_Groups(d) == {dn \in DOMAIN d : Under(dn, GroupBase)}

\* every group that corresponded before an invocation (or did not exist)
\* corresponds after it
C_StepKeepsCorrespondence ==
    \A dn \in C_Groups(dir) :
        (dn \in DOMAIN before => C_Corresponds(before[dn])) => C_Corresponds(dir[dn])

\* the invocation before the current one was a user create for n that
\* returned and added n to the group g, which corresponded before it
C_AddedBefore(n, g) ==
    /\ prev.name = "user_create" /\ prev.returned
    /\ prev.cmd.username = n
    /\ g \in C_GroupDNs(prev.cmd.groups)
    /\ g \in DOMAIN prev.before
    /\ C_Corresponds(prev.before[g])

\* C13: an accepted membership addition (_add_user_to_groups, in user
\* create) or removal (user group remove, group user remove) leaves every
\* group whose memberUid values were exactly the short names of its
\* uniqueMember DNs in that correspondence; and removing a user from a group
\* right after the invocation that added the user gives the group the
\* uniqueMember and memberUid values it had before the addition.
C13_MembershipCorrespondence ==
    /\ C_MembershipDone(C_Additions \cup C_Removals) => C_StepKeepsCorrespondence
    /\ C_MembershipDone(C_Removals) =>
          \A g \in C_Groups(dir) :
              (C_AddedBefore(<<"a">>, g) /\ C_RemovesOnly(<<"a">>, g)) =>
                  /\ dir[g].uniqueMember = prev.before[g].uniqueMember
                  /\ dir[g].memberUid = prev.before[g].memberUid

\* What does hold: additions keep the correspondence.
C13_AdditionsKeepCorrespondence ==
    C_MembershipDone(C_Additions) => C_StepKeepsCorrespondence

\* What does hold: a removal right after the addition restores uniqueMember.
C13_RemovalRestoresUniqueMember ==
    C_MembershipDone(C_Removals) =>
        \A g \in C_Groups(dir) :
            (C_AddedBefore(<<"a">>, g) /\ C_RemovesOnly(<<"a">>, g)) =>
                dir[g].uniqueMember = prev.before[g].uniqueMember

\* What does hold: a removal leaves memberUid as it was.
C13_RemovalKeepsMemberUid ==
    C_MembershipDone(C_Removals) =>
        \A g \in C_Groups(before) :
            g \in DOMAIN dir /\ dir[g].memberUid = before[g].memberUid


\* the groups the current fix-groups run gave a gidNumber to
C_AssignedGid ==
    {dn \in C_Groups(before) :
        dn \in DOMAIN dir /\ before[dn].gidNumber = {} /\ dir[dn].gidNumber # {}}

\* C14: a gidNumber that fix-groups gives to a group is held by no other
\* group under the group search base: not by a group that got its value in
\* the same run, and not by a group that had it before the run (from an
\* earlier fix-groups run or otherwise).
C14_FixGroupsGidDistinct ==
    (HandlerEnded /\ cmd.name = "fix_groups") =>
        \A dn \in C_AssignedGid :
            \A other \in C_Groups(dir) \ {dn} :
                dir[dn].gidNumber \cap dir[other].gidNumber = {}

\* What does hold: the values assigned within one run are pairwise distinct.
C14_DistinctWithinRun ==
    (HandlerEnded /\ cmd.name = "fix_groups") =>
        \A dn \in C_AssignedGid :
            \A other \in C_AssignedGid \ {dn} :
                dir[dn].gidNumber \cap dir[other].gidNumber = {}


====
